---- MODULE Spec2Model ----
(***************************************************************************)
(* A model of two files of the repository:                                 *)
(*                                                                         *)
(*  - nemo/collections/nlp/nm/trainables/common/huggingface/gpt2_nm.py,    *)
(*    the constructor of the GPT2 neural module (specification SpecGPT2);  *)
(*  - examples/nlp/intent_detection_slot_tagging/                          *)
(*    joint_intent_slot_with_bert.py, the training script: its top-level   *)
(*    statements and the function create_pipeline (specification           *)
(*    SpecScript).                                                         *)
(*                                                                         *)
(* Calls into the wrapped libraries (transformers, the NeMo core, the data *)
(* layer) are opaque: they return, and the values the script reads from    *)
(* them (the length of a data layer, the hidden size of a loaded config)   *)
(* are inputs drawn from bounded sets.                                     *)
(***************************************************************************)
EXTENDS Integers, Sequences, FiniteSets

VARIABLES
    \* ---- GPT2.__init__ ----
    gpc,          \* position in GPT2.__init__: "idle", "call", "counted", "checked", "returned", "raised"
    gargs,        \* the constructor's arguments
    libHidden,    \* hidden size of the config the library loads for a name or a file
    total,        \* the local counter of lines 121-127
    gerr,         \* the exception GPT2.__init__ raised, "none" if none
    modules,      \* names registered with add_module
    gconfig,      \* self.config: "none" or [hidden_size |-> n]
    ghidden,      \* self._hidden_size, 0 while the attribute is not set
    \* ---- joint_intent_slot_with_bert.py ----
    pc,           \* index in ScriptOrder of the next top-level statement; 0: not running
    args,         \* the parsed command line
    err,          \* the exception that ended the script, "none" if none
    objects,      \* the names bound at module level so far
    model,        \* which encoder was instantiated: "none", "MegatronBERT", "huggingface"
    restored,     \* model.restore_from was called
    frame,        \* the running create_pipeline call: its locals and its position
    train_tensors,
    train_steps_per_epoch,
    eval_tensors,
    eval_data_layer,
    underscore,   \* the module-level name _ (lines 222 and 229)
    sched,        \* step_freq, eval_step and total_steps given to the callbacks and the lr policy
    trainCalls,   \* how many times nf.train was invoked
    trace         \* the statements executed so far, in order

gvars == <<gpc, gargs, libHidden, total, gerr, modules, gconfig, ghidden>>
svars == <<pc, args, err, objects, model, restored, frame, train_tensors,
           train_steps_per_epoch, eval_tensors, eval_data_layer, underscore,
           sched, trainCalls, trace>>
vars == <<gvars, svars>>

None == "None"

(***************************************************************************)
(* Bounds of the model.                                                    *)
(***************************************************************************)
MaxVocab == 2
MaxData == 3
MaxBatch == 2
MaxGpus == 2
MaxEpochs == 2

(***************************************************************************)
(* GPT2.__init__                                                           *)
(***************************************************************************)

\* The names bound in the module's global namespace when __init__ runs:
\* the imports of lines 19-26, __all__ and the class itself.
ModuleGlobals ==
    {"List", "Optional", "GPT2Config", "GPT2Model", "TrainableNM",
     "PretrainedModelInfo", "ChannelType", "NeuralType", "add_port_docs",
     "__all__", "GPT2"}

\* A global name lookup succeeds iff the name is bound (no builtin is named
\* BertConfig or BertModel); otherwise Python raises NameError.
Resolves(name) == name \in ModuleGlobals

HiddenSizes == {768, 1024}
PretrainedNames == {None, "gpt2", "gpt2-medium"}
ConfigFiles == {None, "config.json"}
\* vocab_size is an Optional[int]: <<>> is None, <<n>> is the integer n
NoInt == <<>>
VocabSizes == {NoInt} \cup {<<n>> : n \in 1..MaxVocab}

GArgs ==
    [pretrained_model_name : PretrainedNames,
     config_filename : ConfigFiles,
     vocab_size : VocabSizes,
     hidden_size : HiddenSizes]

IdleGArgs ==
    [pretrained_model_name |-> None, config_filename |-> None,
     vocab_size |-> NoInt, hidden_size |-> 768]

\* lines 121-127
CountArgs(a) ==
    (IF a.pretrained_model_name # None THEN 1 ELSE 0)
    + (IF a.config_filename # None THEN 1 ELSE 0)
    + (IF a.vocab_size # NoInt THEN 1 ELSE 0)

ArgsValidLoose(t) == t >= 1

\* line 129, negated: the constructor goes on iff total == 1
ArgsValid(t) == t = 1

\* lines 137-157: the first global name each branch evaluates
FirstNameUsed(a) ==
    IF a.vocab_size # NoInt THEN "BertConfig"
    ELSE IF a.pretrained_model_name # None THEN "BertModel"
    ELSE IF a.config_filename # None THEN "BertConfig"
    ELSE "ValueError"

\* lines 137-153: the hidden size of the config of the model each branch builds
BuiltHiddenSize(a, lib) ==
    IF a.vocab_size # NoInt THEN a.hidden_size ELSE lib

GPT2_Count ==
    /\ gpc = "call"
    /\ total' = CountArgs(gargs)
    /\ gpc' = "counted"
    /\ UNCHANGED <<gargs, libHidden, gerr, modules, gconfig, ghidden, svars>>

GPT2_Check ==
    /\ gpc = "counted"
    /\ IF ArgsValid(total)
         THEN gpc' = "checked" /\ gerr' = gerr
         ELSE gpc' = "raised" /\ gerr' = "ValueError"
    /\ UNCHANGED <<gargs, libHidden, total, modules, gconfig, ghidden, svars>>

\* lines 137-163
GPT2_Build ==
    /\ gpc = "checked"
    /\ IF FirstNameUsed(gargs) = "ValueError"
         THEN /\ gpc' = "raised"
              /\ gerr' = "ValueError"
              /\ UNCHANGED <<modules, gconfig, ghidden>>
         ELSE IF ~Resolves(FirstNameUsed(gargs))
         THEN /\ gpc' = "raised"
              /\ gerr' = "NameError"
              /\ UNCHANGED <<modules, gconfig, ghidden>>
         ELSE /\ gpc' = "returned"
              /\ gerr' = gerr
              /\ modules' = modules \cup {"bert"}
              /\ gconfig' = [hidden_size |-> BuiltHiddenSize(gargs, libHidden)]
              /\ ghidden' = BuiltHiddenSize(gargs, libHidden)
    /\ UNCHANGED <<gargs, libHidden, total, svars>>

\* lines 165-173: the property hidden_size
GPT2_hidden_size == ghidden


InitGPT2Vars ==
    /\ gargs \in GArgs
    /\ libHidden \in HiddenSizes
    /\ gpc = "call"
    /\ total = 0
    /\ gerr = "none"
    /\ modules = {}
    /\ gconfig = "none"
    /\ ghidden = 0

IdleGPT2Vars ==
    /\ gargs = IdleGArgs
    /\ libHidden = 768
    /\ gpc = "idle"
    /\ total = 0
    /\ gerr = "none"
    /\ modules = {}
    /\ gconfig = "none"
    /\ ghidden = 0

(***************************************************************************)
(* joint_intent_slot_with_bert.py                                          *)
(***************************************************************************)

\* A path option is absent (None), given as the empty string, or a path.
FileArgs == {None, "", "path"}
ModelNames == {"bert-base-uncased", "megatron"}

\* Python truthiness of an Optional[str] (lines 123 and 139)
Truthy(v) == v # None /\ v # ""

\* The options the script reads (lines 43-104). --batch_size is positive:
\* the data layer is built with it before line 186 is reached.
Args ==
    [data_dir_exists : BOOLEAN,
     pretrained_model_name : ModelNames,
     bert_config : FileArgs,
     bert_checkpoint : FileArgs,
     vocab_file : FileArgs,
     batch_size : 1..MaxBatch,
     num_gpus : 0..MaxGpus,
     num_epochs : 1..MaxEpochs,
     no_shuffle_data : BOOLEAN]

IdleArgs ==
    [data_dir_exists |-> TRUE, pretrained_model_name |-> "bert-base-uncased",
     bert_config |-> None, bert_checkpoint |-> None, vocab_file |-> None,
     batch_size |-> 1, num_gpus |-> 1, num_epochs |-> 1, no_shuffle_data |-> FALSE]

ScriptOrderDescFirst ==
    <<"parse_args", "check_data_dir", "create_factory", "load_data_desc",
      "select_model", "create_tokenizer", "restore_checkpoint",
      "create_classifier", "create_losses", "train_pipeline", "eval_pipeline",
      "create_callbacks", "create_lr_policy", "train">>

ScriptOrderTrainEarly ==
    <<"parse_args", "check_data_dir", "create_factory", "select_model",
      "create_tokenizer", "restore_checkpoint", "load_data_desc",
      "create_classifier", "create_losses", "train_pipeline", "train",
      "eval_pipeline", "create_callbacks", "create_lr_policy">>

\* The top-level statements of the script in the order of the file
\* (lines 106, 108, 111, 122, 131, 139, 145, 150, 154, 222, 229, 238, 269, 273).
ScriptOrder ==
    <<"parse_args", "check_data_dir", "create_factory", "select_model",
      "create_tokenizer", "restore_checkpoint", "load_data_desc",
      "create_classifier", "create_losses", "train_pipeline", "eval_pipeline",
      "create_callbacks", "create_lr_policy", "train">>

\* The statements of create_pipeline in the order of the function
\* (lines 171, 190, 198, 202, 204, 208).
PipelineOrder ==
    <<"data_layer", "steps", "encoder", "classifier", "loss", "return">>

NoLayer == [made |-> FALSE, batch_size |-> 0, shuffle |-> FALSE, size |-> 0]

NoFrame ==
    [active |-> FALSE, call |-> "none", pos |-> 0, is_training |-> FALSE,
     batch_size |-> 0, num_gpus |-> 0, data_layer |-> NoLayer,
     data_size |-> 0, steps_per_epoch |-> 0, wired |-> <<>>]

Unbound == [kind |-> "unbound", steps |-> 0]

Ev(stmt, call) == [stmt |-> stmt, call |-> call]

\* The script is about to run the top-level statement `label`.
At(label) ==
    /\ err = "none"
    /\ ~frame.active
    /\ pc \in 1..Len(ScriptOrder)
    /\ ScriptOrder[pc] = label

\* create_pipeline is about to run its statement `label`.
InPipeline(label) ==
    /\ err = "none"
    /\ frame.active
    /\ frame.pos \in 1..Len(PipelineOrder)
    /\ PipelineOrder[frame.pos] = label

DataDirMissingNever(a) == FALSE

\* line 108
DataDirMissing(a) == ~a.data_dir_exists

MegatronFilesMissingNoVocab(a) == ~(Truthy(a.bert_config) /\ Truthy(a.bert_checkpoint))

\* line 123
MegatronFilesMissing(a) ==
    ~(Truthy(a.bert_config) /\ Truthy(a.bert_checkpoint) /\ Truthy(a.vocab_file))

\* lines 92-94: --no_shuffle_data is a store_false flag with dest shuffle_data,
\* so args.shuffle_data is True unless the flag is passed
ShuffleData(a) == ~a.no_shuffle_data

ShuffleAlways(a, is_training) == ShuffleData(a)

\* line 169
Shuffle(a, is_training) == IF is_training THEN ShuffleData(a) ELSE FALSE

\* lines 190-193: batch_size after the reduction
EffectiveBatchSize(data_size, batch_size) ==
    IF data_size < batch_size THEN data_size ELSE batch_size

FloorDiv(a, b) == a \div b

\* math.ceil(a / b) for a >= 0, b > 0 (line 195)
CeilDiv(a, b) == (a + b - 1) \div b

\* lines 208-217
TensorsToEvaluate(is_training) ==
    IF is_training
      THEN <<"total_loss", "intent_loss", "slot_loss">>
      ELSE <<"intent_logits", "slot_logits", "intents", "slots", "subtokens_mask">>

CallbackStepsFromEval == underscore.steps

\* the name read at lines 247, 261 and 270
CallbackSteps == train_steps_per_epoch


\* Leaves for the next top-level statement, recording the one just run.
Step(label) ==
    /\ pc' = pc + 1
    /\ trace' = Append(trace, Ev(label, "main"))

\* An exception nobody catches ends the script.
Raise(label, e) ==
    /\ err' = e
    /\ pc' = pc
    /\ trace' = Append(trace, Ev(label, "main"))

\* line 106
ParseArgs ==
    /\ At("parse_args")
    /\ Step("parse_args")
    /\ objects' = objects \cup {"args"}
    /\ UNCHANGED <<gvars, args, err, model, restored, frame, train_tensors,
                   train_steps_per_epoch, eval_tensors, eval_data_layer,
                   underscore, sched, trainCalls>>

\* lines 108-109
CheckDataDir ==
    /\ At("check_data_dir")
    /\ IF DataDirMissing(args)
         THEN Raise("check_data_dir", "ValueError")
         ELSE Step("check_data_dir") /\ err' = err
    /\ UNCHANGED <<gvars, args, objects, model, restored, frame, train_tensors,
                   train_steps_per_epoch, eval_tensors, eval_data_layer,
                   underscore, sched, trainCalls>>

\* lines 111-120
CreateFactory ==
    /\ At("create_factory")
    /\ Step("create_factory")
    /\ objects' = objects \cup {"nf"}
    /\ UNCHANGED <<gvars, args, err, model, restored, frame, train_tensors,
                   train_steps_per_epoch, eval_tensors, eval_data_layer,
                   underscore, sched, trainCalls>>

\* lines 122-129
SelectModel ==
    /\ At("select_model")
    /\ IF args.pretrained_model_name = "megatron"
         THEN IF MegatronFilesMissing(args)
                THEN /\ Raise("select_model", "FileNotFoundError")
                     /\ UNCHANGED <<model, objects>>
                ELSE /\ Step("select_model")
                     /\ err' = err
                     /\ model' = "MegatronBERT"
                     /\ objects' = objects \cup {"model"}
         ELSE /\ Step("select_model")
              /\ err' = err
              /\ model' = "huggingface"
              /\ objects' = objects \cup {"model"}
    /\ UNCHANGED <<gvars, args, restored, frame, train_tensors,
                   train_steps_per_epoch, eval_tensors, eval_data_layer,
                   underscore, sched, trainCalls>>

\* lines 131-137
CreateTokenizer ==
    /\ At("create_tokenizer")
    /\ Step("create_tokenizer")
    /\ objects' = objects \cup {"tokenizer"}
    /\ UNCHANGED <<gvars, args, err, model, restored, frame, train_tensors,
                   train_steps_per_epoch, eval_tensors, eval_data_layer,
                   underscore, sched, trainCalls>>

\* lines 139-143
RestoreCheckpoint ==
    /\ At("restore_checkpoint")
    /\ Step("restore_checkpoint")
    /\ restored' = Truthy(args.bert_checkpoint)
    /\ objects' = objects \cup {"hidden_size"}
    /\ UNCHANGED <<gvars, args, err, model, frame, train_tensors,
                   train_steps_per_epoch, eval_tensors, eval_data_layer,
                   underscore, sched, trainCalls>>

\* lines 145-147
LoadDataDesc ==
    /\ At("load_data_desc")
    /\ Step("load_data_desc")
    /\ objects' = objects \cup {"data_desc"}
    /\ UNCHANGED <<gvars, args, err, model, restored, frame, train_tensors,
                   train_steps_per_epoch, eval_tensors, eval_data_layer,
                   underscore, sched, trainCalls>>

\* lines 150-152
CreateClassifier ==
    /\ At("create_classifier")
    /\ Step("create_classifier")
    /\ objects' = objects \cup {"classifier"}
    /\ UNCHANGED <<gvars, args, err, model, restored, frame, train_tensors,
                   train_steps_per_epoch, eval_tensors, eval_data_layer,
                   underscore, sched, trainCalls>>

\* lines 154-162
CreateLosses ==
    /\ At("create_losses")
    /\ Step("create_losses")
    /\ objects' = objects \cup {"intent_loss_fn", "slot_loss_fn", "total_loss_fn"}
    /\ UNCHANGED <<gvars, args, err, model, restored, frame, train_tensors,
                   train_steps_per_epoch, eval_tensors, eval_data_layer,
                   underscore, sched, trainCalls>>


PipelineStmt(c) == IF c = "train" THEN "train_pipeline" ELSE "eval_pipeline"

\* Leaves for the next statement of create_pipeline, recording the one just run.
PStep(label, f) ==
    /\ frame' = [f EXCEPT !.pos = frame.pos + 1]
    /\ trace' = Append(trace, Ev(label, frame.call))

\* lines 222-228 and 229-235: the call, binding the parameters of line 165
CallCreatePipeline ==
    /\ \E c \in {"train", "eval"} :
          /\ At(PipelineStmt(c))
          /\ frame' = [NoFrame EXCEPT !.active = TRUE,
                                      !.call = c,
                                      !.pos = 1,
                                      !.is_training = (c = "train"),
                                      !.batch_size = args.batch_size,
                                      !.num_gpus = args.num_gpus]
          /\ trace' = Append(trace, Ev("create_pipeline", c))
    /\ UNCHANGED <<gvars, pc, args, err, objects, model, restored, train_tensors,
                   train_steps_per_epoch, eval_tensors, eval_data_layer,
                   underscore, sched, trainCalls>>

\* lines 166-188: the data layer is built and its length read
CP_DataLayer ==
    /\ InPipeline("data_layer")
    /\ \E n \in 0..MaxData :
          PStep("data_layer",
                [frame EXCEPT !.data_layer =
                                  [made |-> TRUE,
                                   batch_size |-> frame.batch_size,
                                   shuffle |-> Shuffle(args, frame.is_training),
                                   size |-> n],
                              !.data_size = n])
    /\ UNCHANGED <<gvars, pc, args, err, objects, model, restored, train_tensors,
                   train_steps_per_epoch, eval_tensors, eval_data_layer,
                   underscore, sched, trainCalls>>

\* lines 190-196
CP_Steps ==
    /\ InPipeline("steps")
    /\ LET bs == EffectiveBatchSize(frame.data_size, frame.batch_size)
           den == bs * frame.num_gpus
       IN  IF den = 0
             THEN /\ err' = "ZeroDivisionError"
                  /\ frame' = [frame EXCEPT !.batch_size = bs]
                  /\ trace' = Append(trace, Ev("steps", frame.call))
             ELSE /\ err' = err
                  /\ PStep("steps",
                           [frame EXCEPT !.batch_size = bs,
                                         !.steps_per_epoch = CeilDiv(frame.data_size, den)])
    /\ UNCHANGED <<gvars, pc, args, objects, model, restored, train_tensors,
                   train_steps_per_epoch, eval_tensors, eval_data_layer,
                   underscore, sched, trainCalls>>

\* lines 198-200
CP_Encoder ==
    /\ InPipeline("encoder")
    /\ PStep("encoder", [frame EXCEPT !.wired = Append(frame.wired, "hidden_states")])
    /\ UNCHANGED <<gvars, pc, args, err, objects, model, restored, train_tensors,
                   train_steps_per_epoch, eval_tensors, eval_data_layer,
                   underscore, sched, trainCalls>>

\* line 202
CP_Classifier ==
    /\ InPipeline("classifier")
    /\ PStep("classifier", [frame EXCEPT !.wired = Append(frame.wired, "logits")])
    /\ UNCHANGED <<gvars, pc, args, err, objects, model, restored, train_tensors,
                   train_steps_per_epoch, eval_tensors, eval_data_layer,
                   underscore, sched, trainCalls>>

\* lines 204-206
CP_Loss ==
    /\ InPipeline("loss")
    /\ PStep("loss", [frame EXCEPT !.wired = Append(frame.wired, "total_loss")])
    /\ UNCHANGED <<gvars, pc, args, err, objects, model, restored, train_tensors,
                   train_steps_per_epoch, eval_tensors, eval_data_layer,
                   underscore, sched, trainCalls>>

\* lines 208-219, and the assignment of the result at line 222 or 229
CP_Return ==
    /\ InPipeline("return")
    /\ IF frame.call = "train"
         THEN /\ train_tensors' = TensorsToEvaluate(frame.is_training)
              /\ train_steps_per_epoch' = frame.steps_per_epoch
              /\ underscore' = [kind |-> "data_layer", steps |-> 0]
              /\ objects' = objects \cup {"train_tensors", "train_loss",
                                          "train_steps_per_epoch", "_"}
              /\ UNCHANGED <<eval_tensors, eval_data_layer>>
         ELSE /\ eval_tensors' = TensorsToEvaluate(frame.is_training)
              /\ eval_data_layer' = frame.data_layer
              /\ underscore' = [kind |-> "steps", steps |-> frame.steps_per_epoch]
              /\ objects' = objects \cup {"eval_tensors", "eval_data_layer", "_"}
              /\ UNCHANGED <<train_tensors, train_steps_per_epoch>>
    /\ frame' = NoFrame
    /\ pc' = pc + 1
    /\ trace' = Append(trace, Ev("return", frame.call))
    /\ UNCHANGED <<gvars, args, err, model, restored, sched, trainCalls>>

\* lines 238-267
CreateCallbacks ==
    /\ At("create_callbacks")
    /\ Step("create_callbacks")
    /\ sched' = [sched EXCEPT !.step_freq = CallbackSteps, !.eval_step = CallbackSteps]
    /\ objects' = objects \cup {"train_callback", "eval_callback", "ckpt_callback"}
    /\ UNCHANGED <<gvars, args, err, model, restored, frame, train_tensors,
                   train_steps_per_epoch, eval_tensors, eval_data_layer,
                   underscore, trainCalls>>

\* lines 269-271
CreateLrPolicy ==
    /\ At("create_lr_policy")
    /\ Step("create_lr_policy")
    /\ sched' = [sched EXCEPT !.total_steps = args.num_epochs * CallbackSteps]
    /\ objects' = objects \cup {"lr_policy_fn"}
    /\ UNCHANGED <<gvars, args, err, model, restored, frame, train_tensors,
                   train_steps_per_epoch, eval_tensors, eval_data_layer,
                   underscore, trainCalls>>

\* lines 273-279
Train ==
    /\ At("train")
    /\ Step("train")
    /\ trainCalls' = trainCalls + 1
    /\ UNCHANGED <<gvars, args, err, objects, model, restored, frame, train_tensors,
                   train_steps_per_epoch, eval_tensors, eval_data_layer,
                   underscore, sched>>

InitScriptVars ==
    /\ args \in Args
    /\ pc = 1
    /\ err = "none"
    /\ objects = {}
    /\ model = "none"
    /\ restored = FALSE
    /\ frame = NoFrame
    /\ train_tensors = <<>>
    /\ train_steps_per_epoch = 0
    /\ eval_tensors = <<>>
    /\ eval_data_layer = NoLayer
    /\ underscore = Unbound
    /\ sched = [step_freq |-> 0, eval_step |-> 0, total_steps |-> 0]
    /\ trainCalls = 0
    /\ trace = <<>>

IdleScriptVars ==
    /\ args = IdleArgs
    /\ pc = 0
    /\ err = "none"
    /\ objects = {}
    /\ model = "none"
    /\ restored = FALSE
    /\ frame = NoFrame
    /\ train_tensors = <<>>
    /\ train_steps_per_epoch = 0
    /\ eval_tensors = <<>>
    /\ eval_data_layer = NoLayer
    /\ underscore = Unbound
    /\ sched = [step_freq |-> 0, eval_step |-> 0, total_steps |-> 0]
    /\ trainCalls = 0
    /\ trace = <<>>

(***************************************************************************)
(* The two specifications.                                                 *)
(***************************************************************************)
InitGPT2 == InitGPT2Vars /\ IdleScriptVars

NextGPT2 == GPT2_Count \/ GPT2_Check \/ GPT2_Build

SpecGPT2 == InitGPT2 /\ [][NextGPT2]_vars

InitScript == IdleGPT2Vars /\ InitScriptVars

NextScript ==
    \/ ParseArgs
    \/ CheckDataDir
    \/ CreateFactory
    \/ SelectModel
    \/ CreateTokenizer
    \/ RestoreCheckpoint
    \/ LoadDataDesc
    \/ CreateClassifier
    \/ CreateLosses
    \/ CallCreatePipeline
    \/ CP_DataLayer
    \/ CP_Steps
    \/ CP_Encoder
    \/ CP_Classifier
    \/ CP_Loss
    \/ CP_Return
    \/ CreateCallbacks
    \/ CreateLrPolicy
    \/ Train

SpecScript == InitScript /\ [][NextScript]_vars


(***************************************************************************)
(* Properties.                                                             *)
(***************************************************************************)

\* The model-specification arguments that are not None.
GivenArgs ==
    {n \in {"pretrained_model_name", "config_filename"} : gargs[n] # None}
    \cup (IF gargs.vocab_size # NoInt THEN {"vocab_size"} ELSE {})

\* The top-level statement `stmt` has run.
Ran(stmt) == \E i \in DOMAIN trace : trace[i] = Ev(stmt, "main")

\* The running create_pipeline call is past its statement `label`.
Past(label) ==
    /\ frame.active
    /\ \E i \in 1..Len(PipelineOrder) : i < frame.pos /\ PipelineOrder[i] = label

\* C1: when zero, two or three of pretrained_model_name, config_filename and
\* vocab_size are given, GPT2.__init__ never gets past its check, ends with
\* ValueError, and registers no module.
C1_ConflictingArgsRaise ==
    Cardinality(GivenArgs) # 1 =>
        /\ modules = {}
        /\ ghidden = 0
        /\ gpc \in {"call", "counted", "raised"}
        /\ gpc = "raised" => gerr = "ValueError"
        /\ gpc # "raised" => gerr = "none"

C1_Witness ==
    /\ Cardinality(GivenArgs) = 2
    /\ gpc = "raised"
    /\ gerr = "ValueError"

\* C2: when exactly one of the three arguments is given, GPT2.__init__ ends
\* without an exception, with a model registered as a sub-module and
\* hidden_size equal to the hidden size of that model's config.
C2_ExactlyOneSucceeds ==
    (Cardinality(GivenArgs) = 1 /\ gpc \in {"returned", "raised"}) =>
        /\ gerr = "none"
        /\ gpc = "returned"
        /\ "bert" \in modules
        /\ GPT2_hidden_size = BuiltHiddenSize(gargs, libHidden)

\* C3: create_pipeline never fails in its steps-per-epoch computation, and the
\* value it computes is ceil(dataset_size / (batch_size * num_gpus)) for the
\* batch size and number of GPUs it was called with.
C3_StepsPerEpochFormula ==
    /\ err # "ZeroDivisionError"
    /\ Past("steps") =>
          frame.steps_per_epoch
              = CeilDiv(frame.data_size, args.batch_size * args.num_gpus)

\* Where create_pipeline does return a value: for a non-empty dataset and
\* num_gpus >= 1 the value is the one of the formula above.
StepsFormulaOnNonEmpty ==
    (Past("steps") /\ frame.data_size >= 1 /\ args.num_gpus >= 1) =>
        frame.steps_per_epoch
            = CeilDiv(frame.data_size, args.batch_size * args.num_gpus)

\* C4: when the data directory does not exist, the script ends with
\* ValueError at its check: nothing but args is ever bound (no factory, model,
\* tokenizer, data descriptor or pipeline) and nf.train is never invoked.
C4_MissingDataDirRaisesFirst ==
    ~args.data_dir_exists =>
        /\ objects \subseteq {"args"}
        /\ model = "none"
        /\ ~frame.active
        /\ trainCalls = 0
        /\ \A i \in DOMAIN trace : trace[i].stmt \in {"parse_args", "check_data_dir"}
        /\ Ran("check_data_dir") => err = "ValueError"

C4_Witness ==
    /\ ~args.data_dir_exists
    /\ Ran("check_data_dir")
    /\ err = "ValueError"

Megatron == args.pretrained_model_name = "megatron"

AllFilesSupplied ==
    /\ Truthy(args.bert_config)
    /\ Truthy(args.bert_checkpoint)
    /\ Truthy(args.vocab_file)

\* C5: for the model name "megatron" with one of --bert_config,
\* --bert_checkpoint, --vocab_file not supplied, no model and no tokenizer is
\* ever instantiated and model selection ends with FileNotFoundError; with all
\* three supplied MegatronBERT is instantiated; for any other model name
\* FileNotFoundError is never raised and the model is instantiated whatever
\* files are given.
C5_MegatronFilesRequired ==
    /\ (Megatron /\ ~AllFilesSupplied) =>
          /\ model = "none"
          /\ "model" \notin objects
          /\ "tokenizer" \notin objects
          /\ Ran("select_model") => err = "FileNotFoundError"
    /\ (Megatron /\ AllFilesSupplied) =>
          /\ err # "FileNotFoundError"
          /\ Ran("select_model") => model = "MegatronBERT"
    /\ ~Megatron =>
          /\ err # "FileNotFoundError"
          /\ Ran("select_model") => model = "huggingface"

C5_Witness ==
    /\ Megatron
    /\ Truthy(args.bert_config)
    /\ Truthy(args.bert_checkpoint)
    /\ args.vocab_file = None
    /\ err = "FileNotFoundError"

\* The stage of the script an executed statement belongs to.
StageOf(e) ==
    IF e.call # "main"
      THEN (IF e.stmt \in {"data_layer", "encoder", "classifier", "loss"}
              THEN "pipeline" ELSE "other")
    ELSE IF e.stmt = "parse_args" THEN "args"
    ELSE IF e.stmt = "load_data_desc" THEN "data_desc"
    ELSE IF e.stmt \in {"select_model", "create_tokenizer", "restore_checkpoint"}
      THEN "model"
    ELSE IF e.stmt = "create_callbacks" THEN "callbacks"
    ELSE IF e.stmt = "train" THEN "train"
    ELSE "other"

StatedStageOrder ==
    <<"args", "data_desc", "model", "pipeline", "callbacks", "train">>

ActualStageOrder ==
    <<"args", "model", "data_desc", "pipeline", "callbacks", "train">>

RankIn(order, stage) == CHOOSE k \in DOMAIN order : order[k] = stage

\* No statement of a later stage of `order` runs before one of an earlier stage.
StagesFollow(order) ==
    \A i, j \in DOMAIN trace :
        (i < j /\ StageOf(trace[i]) # "other" /\ StageOf(trace[j]) # "other")
            => RankIn(order, StageOf(trace[i])) <= RankIn(order, StageOf(trace[j]))

IsPrefix(p, q) == Len(p) <= Len(q) /\ \A i \in DOMAIN p : p[i] = q[i]

\* Each create_pipeline call wires data layer, encoder, classifier and loss in
\* this order, and the training pipeline is complete before the evaluation
\* pipeline starts.
PipelineAssembledInOrder ==
    IsPrefix(SelectSeq(trace, LAMBDA e : StageOf(e) = "pipeline"),
             <<Ev("data_layer", "train"), Ev("encoder", "train"),
               Ev("classifier", "train"), Ev("loss", "train"),
               Ev("data_layer", "eval"), Ev("encoder", "eval"),
               Ev("classifier", "eval"), Ev("loss", "eval")>>)

\* C6 as stated: the stages run in the order argument parsing, dataset
\* description loading, model/tokenizer instantiation, pipeline assembly (data
\* layer, encoder, classifier, loss), callback registration, training.
C6_StatedOrder == StagesFollow(StatedStageOrder) /\ PipelineAssembledInOrder

\* C6, in the order of the script: the stages run in the order argument
\* parsing, model/tokenizer instantiation, dataset description loading,
\* pipeline assembly (data layer, encoder, classifier, loss), callback
\* registration, training.
C6_ActualOrder == StagesFollow(ActualStageOrder) /\ PipelineAssembledInOrder

C6_Witness ==
    /\ err = "none"
    /\ trainCalls = 1
    /\ {StageOf(trace[i]) : i \in DOMAIN trace}
          = {"args", "model", "data_desc", "pipeline", "callbacks", "train", "other"}

\* C7: an exception ends the run: nothing is enabled afterwards and nf.train
\* is not invoked; no statement runs twice; nf.train is invoked at most once,
\* only after both pipelines were built, and a run that ends without an
\* exception has invoked it exactly once.
C7_NoRetryTrainOnce ==
    /\ err # "none" => (~ENABLED NextScript /\ trainCalls = 0)
    /\ \A i, j \in DOMAIN trace : i < j => trace[i] # trace[j]
    /\ trainCalls <= 1
    /\ trainCalls = 1 =>
          /\ {"train_tensors", "eval_tensors"} \subseteq objects
          /\ \E i \in DOMAIN trace : trace[i] = Ev("return", "train")
          /\ \E i \in DOMAIN trace : trace[i] = Ev("return", "eval")
    /\ (err = "none" /\ ~ENABLED NextScript) => trainCalls = 1

C7_Witness ==
    /\ err = "FileNotFoundError"
    /\ "nf" \in objects
    /\ ~ENABLED NextScript
    /\ trainCalls = 0

\* C8: in create_pipeline a dataset smaller than the batch size reduces the
\* batch size used for steps_per_epoch to the dataset size; for a non-empty
\* dataset and num_gpus >= 1 the computation does not fail, steps_per_epoch is
\* at least 1 and steps_per_epoch * batch size used * num_gpus covers the
\* dataset; the data layer keeps the batch size it was built with.
C8_BatchReduction ==
    /\ Past("steps") =>
          /\ frame.data_size < args.batch_size => frame.batch_size = frame.data_size
          /\ (frame.data_size >= 1 /\ args.num_gpus >= 1) =>
                /\ frame.steps_per_epoch >= 1
                /\ frame.steps_per_epoch * frame.batch_size * args.num_gpus
                      >= frame.data_size
    /\ err = "ZeroDivisionError" => (frame.data_size = 0 \/ args.num_gpus = 0)
    /\ (frame.active /\ frame.data_layer.made) =>
          frame.data_layer.batch_size = args.batch_size
    /\ eval_data_layer.made => eval_data_layer.batch_size = args.batch_size

C8_Witness ==
    /\ Past("steps")
    /\ frame.data_size >= 1
    /\ frame.data_size < args.batch_size
    /\ args.num_gpus >= 1
    /\ frame.batch_size = frame.data_size
    /\ frame.data_layer.batch_size = args.batch_size

\* C9: the callbacks' step_freq and eval_step are the training pipeline's
\* steps_per_epoch, and the learning-rate policy's total_steps is num_epochs
\* times the training pipeline's steps_per_epoch.
C9_ScheduleFromTrainSteps ==
    /\ Ran("create_callbacks") =>
          /\ sched.step_freq = train_steps_per_epoch
          /\ sched.eval_step = train_steps_per_epoch
    /\ Ran("create_lr_policy") =>
          sched.total_steps = args.num_epochs * train_steps_per_epoch

C9_Witness ==
    /\ Ran("create_lr_policy")
    /\ underscore.kind = "steps"
    /\ underscore.steps # train_steps_per_epoch
    /\ args.num_epochs > 1
    /\ sched.step_freq = train_steps_per_epoch

\* C10: the evaluation pipeline's data layer is never shuffled and its tensor
\* list is the 5 evaluation tensors; the training pipeline's data layer is
\* shuffled iff --no_shuffle_data was not passed and its tensor list is total,
\* intent and slot loss in this order.
C10_ModeDependentResult ==
    /\ (frame.active /\ frame.data_layer.made) =>
          frame.data_layer.shuffle
              = (IF frame.call = "train" THEN ~args.no_shuffle_data ELSE FALSE)
    /\ "train_tensors" \in objects =>
          train_tensors = <<"total_loss", "intent_loss", "slot_loss">>
    /\ "eval_tensors" \in objects =>
          /\ eval_tensors = <<"intent_logits", "slot_logits", "intents", "slots",
                              "subtokens_mask">>
          /\ Len(eval_tensors) = 5
          /\ ~eval_data_layer.shuffle

C10_Witness ==
    /\ "eval_tensors" \in objects
    /\ ~args.no_shuffle_data
    /\ ~eval_data_layer.shuffle
    /\ Len(train_tensors) = 3

====
